---------------------------- MODULE Spec2Model ----------------------------
(***************************************************************************)
(* A model of png_font (src/js/pngfont.js): the text measurer, the greedy  *)
(* word wrapper with its last-text cache, the shadow buffer allocation and *)
(* the line placement of drawText.                                         *)
(*                                                                         *)
(* A JavaScript string is modelled as what it is, a sequence of UTF-16     *)
(* code units (naturals below 65536).  A code point above U+FFFF is two    *)
(* units, a high surrogate followed by a low surrogate.                    *)
(***************************************************************************)
EXTENDS Integers, Sequences, FiniteSets, TLC

\* ------------------------------------------------------------------ bounds

\* Longest text (in UTF-16 units) a caller passes in.
MaxLen == 3

\* The units texts are built from: line-feed, space, 'a' (narrow), U+4E2D
\* (a wide glyph of the basic plane) and the two halves of U+1F600.
Alphabet == {10, 32, 97, 20013, 55357, 56832}

\* Every text of at most MaxLen units.
Texts == UNION {[1..n -> Alphabet] : n \in 0..MaxLen}

\* Scales, wrap boxes [maxWidth, maxHeight, reserved] and positions callers use.
Sizes == {1, 2}
Boxes == {<<w, h, 0>> : w \in {16, 200}, h \in {0, 16, 17, 200}} \cup {<<0, 0, 0>>}
Positions == {<<0, 0>>, <<8, 16>>}

\* The boxes drawText is given as its wrap argument.
DrawBoxes == {<<16, 200, 0>>}

\* The boxes drawText is given when it is asked to tighten the canvas, and the
\* longest text it is asked to tighten the canvas around (every canvas size a
\* tightening leaves multiplies the states of all later calls).
TightenBoxes == {<<200, 200, 0>>}
TightenLen == 1

\* Cell heights setup is called with (16 is the default).
CellHeights == {8, 16}

\* The canvas handed to setup.
CanvasSizes == {[width |-> 200, height |-> 200]}

\* ------------------------------------------------------------------- state

VARIABLES
  charWidth,      \* png_font.charWidth
  charHeight,     \* png_font.charHeight
  ANSICharWidth,  \* png_font.ANSICharWidth
  fontImage,      \* has setup run (png_font.ctx and png_font.fontImage are set)?
  canvas,         \* png_font.ctx.canvas: [width, height]; 0 by 0 before setup
  textDrawn,      \* png_font.textDrawn: [str |-> is it a string, units |-> its units]
  textUTF8Array,  \* png_font.textUTF8Array
  text,           \* the text the caller holds and passes to the next call
  call,           \* the last call: its operation and arguments
  ret,            \* what wrapText returned in the last call
  drawn,          \* the drawImage calls of the last call, in order
  buffer          \* the buffer the last drawTextShadow call allocated: [width, height]

vars == <<charWidth, charHeight, ANSICharWidth, fontImage, canvas, textDrawn, textUTF8Array,
          text, call, ret, drawn, buffer>>

\* ------------------------------------------------------- program constants

\* getCharWidthFromCharCode: codes below 32 * 256 are narrow.
ANSIRows == 32
ANSICols == 256

\* wrapText: the space between words is 8 * size wide.
SpaceUnit == 8

\* wrapText (line-feed branch) and drawText (no shadow): the fixed line pitch.
FixedPitch == 16

\* setup's defaults for charWidth and ANSICharWidth.
DefaultCharWidth == 16
DefaultANSICharWidth == 8

\* The code of the space wrapText appends after each word, and of a line-feed.
SPACE == 32
LF == 10
CR == 13

\* ------------------------------------------------------------ pure helpers

IsHighSurrogate(u) == u >= 55296 /\ u <= 56319
IsLowSurrogate(u) == u >= 56320 /\ u <= 57343

\* Array.from(str): the string split at code point boundaries, a surrogate
\* pair being one element; then charCodeAt(0) of each element, which for a
\* pair is its HIGH SURROGATE, not the code point.
RECURSIVE toCharCodeArrayFrom(_, _)
toCharCodeArrayFrom(str, i) ==
  IF i > Len(str) THEN <<>>
  ELSE IF IsHighSurrogate(str[i]) /\ i < Len(str) /\ IsLowSurrogate(str[i + 1])
       THEN <<str[i]>> \o toCharCodeArrayFrom(str, i + 2)
       ELSE <<str[i]>> \o toCharCodeArrayFrom(str, i + 1)

toCharCodeArray(str) == toCharCodeArrayFrom(str, 1)

\* String.fromCharCode.apply(null, arr): one unit per element, cut to 16 bits.
fromCharCode(arr) == [k \in 1..Len(arr) |-> arr[k] % 65536]

\* str.substring(n) for n >= 0.
substring(str, n) == IF n >= Len(str) THEN <<>> ELSE SubSeq(str, n + 1, Len(str))

getCharWidthFromCharCode(chr) ==
  IF chr < ANSIRows * ANSICols THEN ANSICharWidth ELSE charWidth

\* The sum of the widths of the entries of a code array (getTextWidth's loop,
\* drawTextCanvas's charTotalWidth).
RECURSIVE SumWidths(_)
SumWidths(arr) ==
  IF arr = <<>> THEN 0
  ELSE getCharWidthFromCharCode(Head(arr)) + SumWidths(Tail(arr))

getTextWidth(str, size) == SumWidths(toCharCodeArray(str)) * size

getHeight(size) == size * charHeight

\* ---------------------------------------------------------------- wrapText

RECURSIVE Flatten(_)
Flatten(utf82DArray) ==
  IF utf82DArray = <<>> THEN <<>>
  ELSE Head(utf82DArray) \o Flatten(Tail(utf82DArray))

\* wrapText.missingText: the text from unit index doneText.length on.
missingText(str, utf82DArray) ==
  substring(str, Len(fromCharCode(Flatten(utf82DArray))))

\* The test of line 245: does the word fit on the current line?
Fits(width, wordWidth, wrap) == width + wordWidth < wrap[1]

\* The bottom tests of lines 254 and 270 (line already advanced).
BottomAtLineFeed(line, size, wrap) == line * FixedPitch * size >= wrap[2]
BottomAtWrap(line, size, wrap) == (line + 1) * charWidth * size >= wrap[2]

\* The early return of lines 256 and 272: two elements, no width or height.
EarlyReturn(str, lines) ==
  [lines |-> lines, missing |-> missingText(str, lines), full |-> FALSE,
   minWidth |-> 0, minHeight |-> 0, threw |-> FALSE]

\* The loop of lines 236-290 from index k (1-based; k = Len(arr) + 1 is the
\* end of input), with the locals in s, and the return of line 292.
RECURSIVE WrapLoop(_, _, _, _, _, _)
WrapLoop(str, arr, wrap, size, k, s) ==
  IF k > Len(arr) + 1
  THEN [lines |-> s.lines, missing |-> <<>>, full |-> TRUE,
        minWidth |-> s.maxWidth, minHeight |-> (s.line + 1) * getHeight(size),
        threw |-> FALSE]
  ELSE
    LET spaceWidth == SpaceUnit * size
        atEnd == k = Len(arr) + 1
        isLF == ~atEnd /\ arr[k] = LF
        isWordChar == ~atEnd /\ arr[k] # SPACE /\ arr[k] # LF
        store(t) == [t EXCEPT !.maxWidth = IF t.width > @ THEN t.width ELSE @]
    IN
    IF isWordChar
    THEN WrapLoop(str, arr, wrap, size, k + 1,
           store([s EXCEPT !.wordWidth = @ + getCharWidthFromCharCode(arr[k]) * size,
                           !.word = Append(@, arr[k])]))
    ELSE IF Fits(s.width, s.wordWidth, wrap)
    THEN
      LET lines1 == [s.lines EXCEPT ![s.line + 1] = @ \o s.word \o <<SPACE>>]
          width1 == s.width + s.wordWidth + spaceWidth
      IN
      IF isLF
      THEN IF BottomAtLineFeed(s.line + 1, size, wrap)
           THEN EarlyReturn(str, lines1)
           ELSE WrapLoop(str, arr, wrap, size, k + 1,
                  store([s EXCEPT !.lines = Append(lines1, <<>>),
                                  !.line = @ + 1,
                                  !.width = s.wordWidth + spaceWidth,
                                  !.wordWidth = 0,
                                  !.word = <<>>]))
      ELSE WrapLoop(str, arr, wrap, size, k + 1,
             store([s EXCEPT !.lines = lines1,
                             !.width = width1,
                             !.wordWidth = 0,
                             !.word = <<>>]))
    ELSE
      IF BottomAtWrap(s.line + 1, size, wrap)
      THEN EarlyReturn(str, s.lines)
      ELSE WrapLoop(str, arr, wrap, size, k + 1,
             store([s EXCEPT !.lines = Append(s.lines, s.word \o <<SPACE>>),
                             !.line = @ + 1,
                             !.width = s.wordWidth + spaceWidth,
                             !.wordWidth = 0,
                             !.word = <<>>]))

\* The locals of wrapText as lines 226-235 set them.
WrapStart ==
  [lines |-> << <<>> >>, width |-> 0, line |-> 0, word |-> <<>>,
   wordWidth |-> 0, maxWidth |-> 0]

\* wrapText's result for text str once its code array arr is at hand.
WrapResult(str, arr, wrap, size) == WrapLoop(str, arr, wrap, size, 1, WrapStart)

\* A slip of the test below: the text is decoded only while nothing is cached.
CacheMissStale(cached, str) == ~cached.str

\* The cache test of line 211: textDrawn !== text.
CacheMiss(cached, str) == cached # [str |-> TRUE, units |-> str]

\* The array wrapText walks: decoded afresh on a miss, the cached one on a hit.
ArrayFor(str) ==
  IF CacheMiss(textDrawn, str) THEN toCharCodeArray(str) ELSE textUTF8Array

\* wrapText (lines 210-293) as the engine runs it: the result, from the array
\* the cache hands out.
wrapText(str, wrap, size) == WrapResult(str, ArrayFor(str), wrap, size)

\* The cache after wrapText(str, ...): lines 211-214.
CachedArrayAfter(str) == ArrayFor(str)
CachedTextAfter(str) == [str |-> TRUE, units |-> str]

\* --------------------------------------------------------- getWrapFromText

\* text.split(/\r|\r\n|\n/): the lengths of the pieces.  Each CR and each LF
\* is a separator of its own (the alternative \r matches before \r\n can).
RECURSIVE SplitLengths(_, _)
SplitLengths(str, cur) ==
  IF str = <<>> THEN <<cur>>
  ELSE IF Head(str) = CR \/ Head(str) = LF
       THEN <<cur>> \o SplitLengths(Tail(str), 0)
       ELSE SplitLengths(Tail(str), cur + 1)

RECURSIVE MaxOf(_)
MaxOf(lens) ==
  IF lens = <<>> THEN 0
  ELSE LET m == MaxOf(Tail(lens)) IN IF Head(lens) > m THEN Head(lens) ELSE m

getWrapFromText(str, size, pos) ==
  LET lens == SplitLengths(str, 0)
      linesCount == Len(lens)
      longestLine == MaxOf(lens)
  IN <<(longestLine * size * charWidth) + pos[1],
       (linesCount * size * charWidth) + pos[2], 0>>

\* ----------------------------------------------- drawTextCanvas / Shadow

\* The buffer drawTextCanvas builds for a line is charWidth * length wide
\* (lines 150-152).  For an empty line that is 0, and drawImage rejects a
\* source canvas with a zero dimension (InvalidStateError, at line 173, or
\* at line 178 when size is not 1): the call throws and draws nothing.
DrawImageThrows(utf8Array) == charWidth * Len(utf8Array) = 0

\* drawTextCanvas (lines 149-182): whether it threw, the drawImage calls it
\* made on its target (the line's buffer, charWidth * length by charHeight,
\* scaled by size, at pos) and the width it returns.
drawTextCanvas(utf8Array, pos, size) ==
  IF DrawImageThrows(utf8Array)
  THEN [threw |-> TRUE, calls |-> <<>>, width |-> 0]
  ELSE [threw |-> FALSE,
        calls |-> << [x |-> pos[1], y |-> pos[2],
                      w |-> charWidth * Len(utf8Array) * size,
                      h |-> charHeight * size] >>,
        width |-> SumWidths(utf8Array)]

\* The width and height of the buffer drawTextShadow allocates (lines 189-191).
ShadowBufferWidth(utf8Array, size) == charWidth * Len(utf8Array) * size + 1
ShadowBufferHeight(size) == charHeight * size + 1

\* drawTextShadow (lines 185-196): the buffer, whether a pass threw, the passes
\* drawn into the buffer (the shadow at (size, size), then the text at (0, 0))
\* and the width it returns.
drawTextShadow(utf8Array, size) ==
  LET shadowPass == drawTextCanvas(utf8Array, <<size, size>>, size)
      textPass == drawTextCanvas(utf8Array, <<0, 0>>, size)
      buf == [width |-> ShadowBufferWidth(utf8Array, size),
              height |-> ShadowBufferHeight(size)]
  IN IF shadowPass.threw
     THEN [buffer |-> buf, threw |-> TRUE, passes |-> shadowPass.calls, width |-> 0]
     ELSE IF textPass.threw
     THEN [buffer |-> buf, threw |-> TRUE,
           passes |-> shadowPass.calls \o textPass.calls, width |-> 0]
     ELSE [buffer |-> buf, threw |-> FALSE,
           passes |-> shadowPass.calls \o textPass.calls,
           width |-> textPass.width + size]

\* ---------------------------------------------------------------- drawText

\* The wrap box drawText uses (lines 311-315): wrapArg is "undefined" (also
\* null), "nowrap" (also any other falsy value) or "box" (the box given).
WrapFor(str, pos, size, wrapArg, box) ==
  IF wrapArg = "undefined"
  THEN <<canvas.width - pos[1], canvas.height - pos[2], 0>>
  ELSE IF wrapArg = "nowrap" THEN getWrapFromText(str, size, pos)
  ELSE box

\* The canvas after lines 328-341.  An early return of wrapText leaves
\* minWidth and minHeight undefined; a canvas dimension set to undefined or
\* NaN becomes 0.
Tightened(r, size, shadow) ==
  IF ~r.full THEN [width |-> 0, height |-> 0]
  ELSE IF shadow
       THEN [width |-> r.minWidth + size * 2, height |-> r.minHeight + size * 2]
       ELSE [width |-> r.minWidth, height |-> r.minHeight]

\* A slip of the offset below: the fixed pitch in both modes.
LineOffsetFixed(i, size, shadow) == i * FixedPitch * size

\* The vertical offset of line i (0-based) below pos: line 347 without a
\* shadow, line 351 with one.
LineOffset(i, size, shadow) ==
  IF ~shadow THEN i * FixedPitch * size ELSE i * getHeight(size)

\* One pass of the loop of lines 343-353, for line i (0-based): whether it
\* threw and the drawImage calls it made on the canvas.
DrawLine(utf8Array, i, pos, size, shadow) ==
  IF ~shadow
  THEN LET d == drawTextCanvas(utf8Array,
                               <<pos[1], pos[2] + LineOffset(i, size, shadow)>>, size)
       IN [threw |-> d.threw, calls |-> d.calls]
  ELSE LET d == drawTextShadow(utf8Array, size)
       IN IF d.threw THEN [threw |-> TRUE, calls |-> <<>>]
          ELSE [threw |-> FALSE,
                calls |-> << [x |-> pos[1], y |-> pos[2] + LineOffset(i, size, shadow),
                              w |-> d.buffer.width, h |-> d.buffer.height] >>]

\* The loop of lines 343-353 from line i (0-based) on: it stops at the first
\* line whose drawing throws.
RECURSIVE DrawLines(_, _, _, _, _)
DrawLines(lines, i, pos, size, shadow) ==
  IF i >= Len(lines) THEN [threw |-> FALSE, calls |-> <<>>]
  ELSE LET d == DrawLine(lines[i + 1], i, pos, size, shadow)
       IN IF d.threw THEN d
          ELSE LET rest == DrawLines(lines, i + 1, pos, size, shadow)
               IN [threw |-> rest.threw, calls |-> d.calls \o rest.calls]

\* ------------------------------------------------------------------ actions

NoRet ==
  [lines |-> <<>>, missing |-> <<>>, full |-> FALSE, minWidth |-> 0, minHeight |-> 0,
   threw |-> FALSE]

\* What the caller gets when the call throws: no value.
Threw == [NoRet EXCEPT !.threw = TRUE]

NoBuffer == [width |-> 0, height |-> 0]

CallOf(op, str, wrap, size, pos, shadow, wrapArg, tighten, hit) ==
  [op |-> op, text |-> str, wrap |-> wrap, size |-> size, pos |-> pos,
   shadow |-> shadow, wrapArg |-> wrapArg, tighten |-> tighten, hit |-> hit]

NoCall(op) == CallOf(op, <<>>, <<0, 0, 0>>, 1, <<0, 0>>, FALSE, "box", FALSE, FALSE)

\* The object literal of lines 27-35, and a caller holding some text.
Init ==
  /\ charWidth = 8
  /\ charHeight = 8
  /\ ANSICharWidth = 8
  /\ fontImage = FALSE
  /\ canvas = NoBuffer
  /\ textDrawn = [str |-> FALSE, units |-> <<>>]
  /\ textUTF8Array = <<>>
  /\ text \in Texts
  /\ call = NoCall("none")
  /\ ret = NoRet
  /\ drawn = <<>>
  /\ buffer = NoBuffer

\* The engine is between calls.
Idle == call.op \in {"none", "setup", "idle"}

\* setup (lines 43-71) with the default cell width and narrow width.
Setup(cellHeight, surface) ==
  /\ Idle
  /\ charWidth' = DefaultCharWidth
  /\ charHeight' = cellHeight
  /\ ANSICharWidth' = DefaultANSICharWidth
  /\ fontImage' = TRUE
  /\ canvas' = surface
  /\ call' = NoCall("setup")
  /\ ret' = NoRet
  /\ drawn' = <<>>
  /\ buffer' = NoBuffer
  /\ UNCHANGED <<textDrawn, textUTF8Array, text>>

\* "png_font.setup must be ran before any write to the canvas" (lines 37-42):
\* the calls that draw are made once setup has run.
Ready == Idle /\ fontImage

\* wrapText(text, wrap, size), lines 210-293.  It draws nothing and runs
\* before setup too, on the widths of the object literal.
WrapText(wrap, size) ==
  /\ Idle
  /\ ret' = wrapText(text, wrap, size)
  /\ textUTF8Array' = CachedArrayAfter(text)
  /\ textDrawn' = CachedTextAfter(text)
  /\ call' = CallOf("wrapText", text, wrap, size, <<0, 0>>, FALSE, "box", FALSE,
                    ~CacheMiss(textDrawn, text))
  /\ drawn' = <<>>
  /\ UNCHANGED <<charWidth, charHeight, ANSICharWidth, fontImage, canvas, text, buffer>>

\* drawText(text, pos, color, size, shadow, wrap, tightenCanvas), lines 302-356.
\* When the drawing of a line throws, the lines before it are drawn, the
\* canvas is already tightened and the cache filled, and nothing is returned.
DrawText(pos, size, shadow, wrapArg, box, tighten) ==
  /\ Ready
  /\ LET wrap == WrapFor(text, pos, size, wrapArg, box)
         r == wrapText(text, wrap, size)
         d == DrawLines(r.lines, 0, pos, size, shadow)
     IN /\ ret' = IF d.threw THEN Threw ELSE r
        /\ canvas' = IF tighten THEN Tightened(r, size, shadow) ELSE canvas
        /\ drawn' = d.calls
        /\ call' = CallOf("drawText", text, wrap, size, pos, shadow, wrapArg, tighten,
                          ~CacheMiss(textDrawn, text))
  /\ textUTF8Array' = CachedArrayAfter(text)
  /\ textDrawn' = CachedTextAfter(text)
  /\ UNCHANGED <<charWidth, charHeight, ANSICharWidth, fontImage, text, buffer>>

\* drawTextShadow(line, color, size, shadowcolor), lines 185-196, on the code
\* array of the caller's text: buffer is the buffer allocated, drawn holds the
\* passes drawn into it, ret.lines the line and ret.minWidth the width returned.
DrawTextShadow(size) ==
  /\ Ready
  /\ LET line == toCharCodeArray(text)
         d == drawTextShadow(line, size)
     IN /\ drawn' = d.passes
        /\ buffer' = d.buffer
        /\ ret' = IF d.threw THEN Threw
                  ELSE [NoRet EXCEPT !.lines = <<line>>, !.minWidth = d.width]
  /\ call' = CallOf("drawTextShadow", text, <<0, 0, 0>>, size, <<0, 0>>, TRUE,
                    "box", FALSE, FALSE)
  /\ UNCHANGED <<charWidth, charHeight, ANSICharWidth, fontImage, canvas, textDrawn,
                 textUTF8Array, text>>

\* The caller takes the missing text the call returned (lines 256, 272, 292,
\* 355) as the text of its next call.
Continue ==
  /\ call.op \in {"wrapText", "drawText"}
  /\ ~ret.threw
  /\ ret.missing # <<>>
  /\ text' = ret.missing
  /\ call' = NoCall("idle")
  /\ ret' = NoRet
  /\ drawn' = <<>>
  /\ buffer' = NoBuffer
  /\ UNCHANGED <<charWidth, charHeight, ANSICharWidth, fontImage, canvas, textDrawn,
                 textUTF8Array>>

\* The caller is done with the call (what it returned, or what it threw) and
\* keeps its text.
Discard ==
  /\ call.op \in {"wrapText", "drawText", "drawTextShadow"}
  /\ call' = NoCall("idle")
  /\ ret' = NoRet
  /\ drawn' = <<>>
  /\ buffer' = NoBuffer
  /\ UNCHANGED <<charWidth, charHeight, ANSICharWidth, fontImage, canvas, textDrawn,
                 textUTF8Array, text>>

Next ==
  \/ \E h \in CellHeights, c \in CanvasSizes : Setup(h, c)
  \/ \E w \in Boxes, s \in Sizes : WrapText(w, s)
  \/ \E p \in Positions, s \in Sizes, sh \in BOOLEAN,
        a \in {"undefined", "nowrap"} : DrawText(p, s, sh, a, <<0, 0, 0>>, FALSE)
  \/ \E s \in Sizes, sh \in BOOLEAN, w \in DrawBoxes :
        DrawText(<<0, 0>>, s, sh, "box", w, FALSE)
  \/ \E s \in Sizes, sh \in BOOLEAN, w \in TightenBoxes :
        Len(text) <= TightenLen /\ DrawText(<<0, 0>>, s, sh, "box", w, TRUE)
  \/ \E s \in Sizes : DrawTextShadow(s)
  \/ Continue
  \/ Discard

Spec == Init /\ [][Next]_vars

\* ------------------------------------------------------------------ claims

\* The last call ran wrapText (directly, or inside drawText) and returned.
Wrapped == call.op \in {"wrapText", "drawText"} /\ ~ret.threw

\* str without its first n code points (a surrogate pair is one code point).
RECURSIVE DropCodePoints(_, _)
DropCodePoints(str, n) ==
  IF n = 0 \/ str = <<>> THEN str
  ELSE IF Len(str) >= 2 /\ IsHighSurrogate(str[1]) /\ IsLowSurrogate(str[2])
       THEN DropCodePoints(SubSeq(str, 3, Len(str)), n - 1)
       ELSE DropCodePoints(Tail(str), n - 1)

\* The code points of str: a surrogate pair decodes to its scalar value.
RECURSIVE CodePoints(_)
CodePoints(str) ==
  IF str = <<>> THEN <<>>
  ELSE IF Len(str) >= 2 /\ IsHighSurrogate(str[1]) /\ IsLowSurrogate(str[2])
       THEN <<65536 + (str[1] - 55296) * 1024 + (str[2] - 56320)>>
              \o CodePoints(SubSeq(str, 3, Len(str)))
       ELSE <<str[1]>> \o CodePoints(Tail(str))

\* seq without its spaces and line-feeds.
NonDelimiters(seq) == SelectSeq(seq, LAMBDA c : c # SPACE /\ c # LF)

\* The width in pixels of the code array of a line at scale 1.
LineWidth(line) == SumWidths(line)

\* A line without the space appended after its last word.
WithoutTrailingSpace(line) ==
  IF line = <<>> THEN line ELSE SubSeq(line, 1, Len(line) - 1)

\* The number of line-feeds of a code array.
LineFeeds(arr) == Len(SelectSeq(arr, LAMBDA c : c = LF))

\* C1 (as claimed): when wrapText stops early, missing is the text from its
\* first unplaced character on: the text without as many code points as the
\* returned lines hold entries.  Fails for a text with a code point above
\* U+FFFF: missing is cut at a unit index counted in code points.
C1_MissingStartsAtFirstUnplaced ==
  (Wrapped /\ ~ret.full) =>
    ret.missing = DropCodePoints(call.text, Len(Flatten(ret.lines)))

\* C2 (as claimed): when missing is empty, the lines without their spaces are
\* the non-delimiter code points of the text, in order.  Fails for a code
\* point above U+FFFF: its entry is the high surrogate, not the code point.
C2_LinesHoldCodePoints ==
  (Wrapped /\ ret.missing = <<>>) =>
    NonDelimiters(Flatten(ret.lines)) = NonDelimiters(CodePoints(call.text))

\* C3 (as claimed): with box height 0 and a non-empty text, missing is the
\* whole text and lines is one empty line.  Fails when the first word fits
\* the width: line 0 is filled before any height test (lines 245-247).
C3_HeightZeroPlacesNothing ==
  (Wrapped /\ call.wrap[2] = 0 /\ call.text # <<>>) =>
    (ret.missing = call.text /\ ret.lines = << <<>> >>)

\* C4 (as claimed): every returned line, without its trailing space, is
\* narrower than the box, and the lines stacked at the cell height stay inside
\* the box height.
C4_LinesFitBox ==
  Wrapped =>
    /\ \A i \in 1..Len(ret.lines) :
         LineWidth(WithoutTrailingSpace(ret.lines[i])) * call.size < call.wrap[1]
    /\ Len(ret.lines) * charHeight * call.size <= call.wrap[2]

\* C5 (as claimed): drawText with wrap = 'nowrap' returns, places every
\* character, starts a new line only at a line-feed and returns an empty
\* missing.
C5_NoWrapPlacesAll ==
  (call.op = "drawText" /\ call.wrapArg = "nowrap") =>
    /\ ~ret.threw
    /\ ret.missing = <<>>
    /\ Len(ret.lines) = 1 + LineFeeds(toCharCodeArray(call.text))
    /\ NonDelimiters(Flatten(ret.lines)) = NonDelimiters(toCharCodeArray(call.text))

\* C6: the cached array is the decoding of the cached text, and every call
\* that returns returns what wrapText returns from a fresh decoding of its
\* text.
C6_CacheTransparent ==
  /\ textUTF8Array = (IF textDrawn.str THEN toCharCodeArray(textDrawn.units) ELSE <<>>)
  /\ Wrapped =>
       ret = WrapResult(call.text, toCharCodeArray(call.text), call.wrap, call.size)

\* C6 witness: a call served from the cache (the same text as the call before,
\* another box) laid out two lines or more.
C6_Witness ==
  call.op = "wrapText" /\ call.hit /\ ret.full /\ Len(ret.lines) >= 2

\* C7 (as claimed): for a box of positive width and height, a non-empty
\* missing is strictly shorter than the text passed in.
C7_MissingShrinks ==
  (Wrapped /\ call.wrap[1] > 0 /\ call.wrap[2] > 0 /\ ret.missing # <<>>) =>
    Len(ret.missing) < Len(call.text)

\* C8 (as claimed): on a full pass, maxLineWidth is at least the scaled width
\* of every returned line, its trailing space included (narrow width 8).
C8_MaxLineWidthCoversLines ==
  (Wrapped /\ ret.full /\ ANSICharWidth = SpaceUnit) =>
    \A i \in 1..Len(ret.lines) :
      ret.minWidth >= LineWidth(ret.lines[i]) * call.size

\* C9 (as claimed): line i is drawn at pos.y + i * 16 * scale, shadow or not.
C9_SamePitchInBothModes ==
  call.op = "drawText" =>
    \A i \in 1..Len(drawn) :
      drawn[i].y = call.pos[2] + (i - 1) * FixedPitch * call.size

\* C9 (amended): line i is drawn at pos.y + i * 16 * scale without a shadow
\* and at pos.y + i * cellHeight * scale with one; the two pitches are the
\* same only for cellHeight = 16.  Every line is drawn when drawText returns.
C9_PitchByMode ==
  call.op = "drawText" =>
    /\ ~ret.threw => Len(drawn) = Len(ret.lines)
    /\ \A i \in 1..Len(drawn) :
         drawn[i].y = call.pos[2]
                        + (i - 1) * (IF call.shadow THEN charHeight ELSE FixedPitch)
                            * call.size

\* C9 witness: a second line drawn with a shadow at a cell height other than 16.
C9_Witness ==
  /\ call.op = "drawText" /\ call.shadow /\ charHeight # FixedPitch
  /\ Len(drawn) >= 2
  /\ drawn[2].y = call.pos[2] + charHeight * call.size

\* C10 (as claimed): the shadow buffer is getTextWidth(line, 1) * scale + scale
\* wide and cellHeight * scale + scale high, and the shadow pass drawn at
\* (scale, scale) lies inside it.
C10_ShadowBufferHoldsShadow ==
  call.op = "drawTextShadow" =>
    /\ buffer.width = LineWidth(toCharCodeArray(call.text)) * call.size + call.size
    /\ buffer.height = charHeight * call.size + call.size
    /\ ~ret.threw => /\ drawn[1].x + drawn[1].w <= buffer.width
                     /\ drawn[1].y + drawn[1].h <= buffer.height

=============================================================================
